---- MODULE Spec2Model ----
(***************************************************************************)
(* Model of src/app.py: the four-stage question -> SQL -> result -> answer *)
(* pipeline driven by process_question.                                    *)
(*                                                                         *)
(* Text is modelled as a sequence of tokens: the empty string is <<>> and  *)
(* string concatenation is \o.  Each request slot r is one invocation of   *)
(* process_question; the external calls (language model, schema read,      *)
(* store execution) are the points where invocations interleave.           *)
(***************************************************************************)
EXTENDS Integers, Sequences, FiniteSets, TLC

\* ---- bounds ----
NumReqs == 2        \* concurrent invocations in SpecConc
MaxRows == 11       \* largest row count the store returns for an unlimited select

\* ---- program constants ----
top_k == 10         \* "top_k": 10 handed to the prompt template

VARIABLES
    world,                  \* what the environment (callers, model, store) can produce
    question,               \* argument `question` of each invocation
    llm_model,              \* argument `llm_model` of each invocation
    llm,                    \* the chat model built by init_chat_model, per invocation
    stage,                  \* position of each invocation in the pipeline state machine
    states,                 \* the State dict each invocation threads through the graph
    ret,                    \* the 4-tuple returned by process_question (<<>> while running)
    log,                    \* graph nodes executed by each invocation, in order
    llmCalls,               \* prompts each invocation sent to the language model
    schemaReads,            \* db.get_table_info() calls made by each invocation
    storeExecs,             \* statements each invocation dispatched to the store
    lastRows,               \* size of the result set of the executed query
    storeOutcome,           \* what the store reported for the executed query
    storeMutated,           \* TRUE once a mutating statement has run on the store
    db,                     \* the module-level SQLDatabase handle
    query_prompt_template   \* the module-level ChatPromptTemplate

vars == <<world, question, llm_model, llm, stage, states, ret, log, llmCalls,
          schemaReads, storeExecs, lastRows, storeOutcome, storeMutated, db,
          query_prompt_template>>

Reqs == 1..NumReqs

\* ---- text helpers ----
Empty == <<>>

RECURSIVE Contains(_, _)
Contains(s, tok) ==
    IF s = <<>> THEN FALSE
    ELSE IF Head(s) = tok THEN TRUE ELSE Contains(Tail(s), tok)

\* `not question`
IsEmptyUnchecked(q) == FALSE

IsEmpty(q) == q = Empty

\* ---- get_llm ----
get_llm_default(model) ==
    IF model = "llama-3.3-70b-versatile"
        THEN [ok |-> TRUE, model |-> "llama-3.3-70b-versatile", provider |-> "groq"]
    ELSE IF model = "gemini-2.5-flash-preview-04-17"
        THEN [ok |-> TRUE, model |-> "gemini-2.5-flash-preview-04-17", provider |-> "google_genai"]
    ELSE [ok |-> TRUE, model |-> "gemini-2.0-flash", provider |-> "google_genai"]

get_llm(model) ==
    IF model = "gemini-2.0-flash"
        THEN [ok |-> TRUE, model |-> "gemini-2.0-flash", provider |-> "google_genai"]
    ELSE IF model = "llama-3.3-70b-versatile"
        THEN [ok |-> TRUE, model |-> "llama-3.3-70b-versatile", provider |-> "groq"]
    ELSE IF model = "gemini-2.5-flash-preview-04-17"
        THEN [ok |-> TRUE, model |-> "gemini-2.5-flash-preview-04-17", provider |-> "google_genai"]
    ELSE [ok |-> FALSE, err |-> <<"Unsupported model: ", model>>]

NoLLM == [model |-> "none", provider |-> "none"]

\* ---- State ----
State(q) == [question |-> q, expanded_question |-> Empty, query |-> Empty,
             result |-> Empty, answer |-> Empty]

NoState == State(Empty)

\* the `state` dict is a local of process_question: one per invocation
StateSlotModuleLevel(r) == 1

StateSlot(r) == r

\* ---- the tuples process_question returns ----
ValidationTuple == << <<"Error: ", "Please enter a question.">>, Empty, Empty, Empty >>

ErrorTuple(e) == << <<"Error: ">> \o e, Empty, Empty, Empty >>

SuccessTupleNoHeadings(result) ==
    << result.answer, result.expanded_question, result.query, result.result >>

SuccessTuple(result) ==
    << <<"Final Answer">> \o result.answer,
       <<"Expanded Question">> \o result.expanded_question,
       <<"SQL Query">> \o result.query,
       <<"Query Result">> \o result.result >>

\* ---- add_sequence([...]) ----
SequenceSwapped ==
    <<"natural_language_expand", "execute_query", "write_query", "generate_answer">>

Sequence == <<"natural_language_expand", "write_query", "execute_query", "generate_answer">>

\* the node the compiled graph runs next for invocation r
NextNode(r) ==
    IF Len(log[r]) < Len(Sequence) THEN Sequence[Len(log[r]) + 1] ELSE "END"

Running(r) == stage[r] \in {"Start", "Expanded", "Queried", "Executed"}


\* ---- the environment ----
Q1   == <<"most", "sixes", "2023">>
Q2   == <<"best", "economy", "2024">>
QAll == <<"list", "all", "players">>

\* a question "explicitly requests more rows" when it asks for all of them
RequestsMoreRows(q) == Contains(q, "all")

SelectLimited   == <<"SELECT", "name", "FROM", "players", "LIMIT">>
SelectUnlimited == <<"SELECT", "name", "FROM", "players">>
SelectBadColumn == <<"SELECT", "bad_column", "FROM", "players", "LIMIT">>
DeleteRows      == <<"DELETE", "FROM", "players">>

\* one invocation, everything the model and the store can answer
RichWorld ==
    [workers      |-> {1},
     questions    |-> {Empty, Q1, QAll},
     models       |-> {"gemini-2.0-flash", "llama-3.3-70b-versatile",
                       "gemini-2.5-flash-preview-04-17", "unsupported-model-x"},
     emptyContent |-> TRUE,
     queries      |-> {Empty, SelectLimited, SelectUnlimited, SelectBadColumn, DeleteRows},
     rows         |-> {0, 1, top_k, MaxRows}]

\* several invocations at once, a well-behaved model and store
ConcWorld ==
    [workers      |-> Reqs,
     questions    |-> {Empty, Q1, Q2},
     models       |-> {"gemini-2.0-flash", "unsupported-model-x"},
     emptyContent |-> FALSE,
     queries      |-> {SelectLimited},
     rows         |-> {1}]

\* ---- the language model: llm.invoke / structured_llm.invoke ----
Raised(e)    == [raised |-> TRUE,  err |-> e,     content |-> Empty]
Returned(c)  == [raised |-> FALSE, err |-> Empty, content |-> c]

\* response.content of llm.invoke(prompt): a text built on the prompt's input,
\* possibly empty, or the call raises
LLMInvoke(w, tag, input) ==
    {Raised(<<"provider error">>), Returned(<<tag>> \o input)}
        \cup (IF w.emptyContent THEN {Returned(Empty)} ELSE {})

\* structured_llm.invoke(prompt): a QueryOutput whose query is any str, or the
\* call raises (provider error, output that does not validate)
StructuredInvoke(w) ==
    {Raised(<<"structured output failed">>)} \cup {Returned(q) : q \in w.queries}

\* ---- the store behind QuerySQLDataBaseTool ----
StatementKind(q) ==
    IF q = Empty THEN "empty"
    ELSE IF Head(q) = "SELECT" THEN "select"
    ELSE "mutating"

StoreError(e) == [kind |-> "error",   rows |-> 0, err |-> e]
StoreRows(n)  == [kind |-> "rows",    rows |-> n, err |-> Empty]
StoreDone     == [kind |-> "mutated", rows |-> 0, err |-> Empty]

\* what running statement q on the store can give
StoreOutcomes(w, q) ==
    IF StatementKind(q) = "empty" THEN {StoreError(<<"empty query">>)}
    ELSE IF StatementKind(q) = "mutating" THEN {StoreDone}
    ELSE IF Contains(q, "bad_column") THEN {StoreError(<<"column does not exist">>)}
    ELSE {StoreRows(n) : n \in {m \in w.rows : Contains(q, "LIMIT") => m <= top_k}}

\* the statements execute_query_tool.invoke(query) sends to the store
InvocationsRetryOnError(q, o) == IF o.kind = "error" THEN <<q, q>> ELSE <<q>>

Invocations(q, o) == <<q>>

\* the text execute_query_tool.invoke returns: the rows, "" when there are
\* none, the store's error as text
ToolInvokeThrowing(o) ==
    IF o.kind = "error" THEN Raised(o.err)
    ELSE IF o.rows = 0 THEN Returned(Empty)
    ELSE Returned(<<"rows", ToString(o.rows)>>)

ToolInvoke(o) ==
    IF o.kind = "error" THEN Returned(<<"Error: ">> \o o.err)
    ELSE IF o.rows = 0 THEN Returned(Empty)
    ELSE Returned(<<"rows", ToString(o.rows)>>)


\* ---- state after import: no invocation yet ----
InitWith(w) ==
    /\ world = w
    /\ question = [r \in Reqs |-> Empty]
    /\ llm_model = [r \in Reqs |-> "none"]
    /\ llm = [r \in Reqs |-> NoLLM]
    /\ stage = [r \in Reqs |-> "Idle"]
    /\ states = [r \in Reqs |-> NoState]
    /\ ret = [r \in Reqs |-> <<>>]
    /\ log = [r \in Reqs |-> <<>>]
    /\ llmCalls = [r \in Reqs |-> <<>>]
    /\ schemaReads = [r \in Reqs |-> 0]
    /\ storeExecs = [r \in Reqs |-> <<>>]
    /\ lastRows = [r \in Reqs |-> 0]
    /\ storeOutcome = [r \in Reqs |-> "none"]
    /\ storeMutated = FALSE
    /\ db = "SQLDatabase"
    /\ query_prompt_template = <<"system_message", "user_prompt">>

Init == InitWith(RichWorld)

InitConc == InitWith(ConcWorld)

\* a prompt sent to the model: which node, which model, the state fields in it
Prompt(node, r, input) == [node |-> node, llm |-> llm[r], input |-> input]

\* `except Exception as e: return f"Error: {str(e)}", "", "", ""`
Fail(r, e) ==
    /\ stage' = [stage EXCEPT ![r] = "Failed"]
    /\ ret' = [ret EXCEPT ![r] = ErrorTuple(e)]
    /\ states' = states

\* ---- process_question up to graph.invoke ----
process_question(r) ==
    \E q \in world.questions : \E m \in world.models :
    /\ r \in world.workers
    /\ stage[r] = "Idle"
    /\ question' = [question EXCEPT ![r] = q]
    /\ llm_model' = [llm_model EXCEPT ![r] = m]
    /\ IF IsEmpty(q)
         THEN /\ stage' = [stage EXCEPT ![r] = "Rejected"]
              /\ ret' = [ret EXCEPT ![r] = ValidationTuple]
              /\ UNCHANGED <<llm, states>>
       ELSE IF ~get_llm(m).ok
         THEN /\ stage' = [stage EXCEPT ![r] = "Rejected"]
              /\ ret' = [ret EXCEPT ![r] = ErrorTuple(get_llm(m).err)]
              /\ UNCHANGED <<llm, states>>
       ELSE \E built \in BOOLEAN :
              IF built
                THEN /\ llm' = [llm EXCEPT ![r] = [model |-> get_llm(m).model,
                                                   provider |-> get_llm(m).provider]]
                     /\ states' = [states EXCEPT ![StateSlot(r)] = State(q)]
                     /\ stage' = [stage EXCEPT ![r] = "Start"]
                     /\ ret' = ret
                ELSE /\ stage' = [stage EXCEPT ![r] = "Rejected"]
                     /\ ret' = [ret EXCEPT ![r] = ErrorTuple(<<"init_chat_model failed">>)]
                     /\ UNCHANGED <<llm, states>>
    /\ UNCHANGED <<world, log, llmCalls, schemaReads, storeExecs, lastRows,
                   storeOutcome, storeMutated, db, query_prompt_template>>

\* ---- the graph nodes ----
natural_language_expand(r) ==
    /\ Running(r)
    /\ NextNode(r) = "natural_language_expand"
    /\ log' = [log EXCEPT ![r] = Append(@, "natural_language_expand")]
    /\ schemaReads' = [schemaReads EXCEPT ![r] = @ + 1]
    /\ LET state == states[StateSlot(r)] IN
       \/ /\ Fail(r, <<"get_table_info failed">>)
          /\ llmCalls' = llmCalls
       \/ /\ llmCalls' = [llmCalls EXCEPT ![r] =
                 Append(@, Prompt("natural_language_expand", r, <<state.question>>))]
          /\ \E response \in LLMInvoke(world, "expanded", state.question) :
               IF response.raised
                 THEN Fail(r, response.err)
                 ELSE /\ states' = [states EXCEPT ![StateSlot(r)].expanded_question =
                                        response.content]
                      /\ stage' = [stage EXCEPT ![r] = "Expanded"]
                      /\ ret' = ret
    /\ UNCHANGED <<world, question, llm_model, llm, storeExecs, lastRows,
                   storeOutcome, storeMutated, db, query_prompt_template>>

write_query(r) ==
    /\ Running(r)
    /\ NextNode(r) = "write_query"
    /\ log' = [log EXCEPT ![r] = Append(@, "write_query")]
    /\ schemaReads' = [schemaReads EXCEPT ![r] = @ + 1]
    /\ LET state == states[StateSlot(r)] IN
       \/ /\ Fail(r, <<"get_table_info failed">>)
          /\ llmCalls' = llmCalls
       \/ /\ llmCalls' = [llmCalls EXCEPT ![r] =
                 Append(@, Prompt("write_query", r, <<state.expanded_question>>))]
          /\ \E result \in StructuredInvoke(world) :
               IF result.raised
                 THEN Fail(r, result.err)
                 ELSE /\ states' = [states EXCEPT ![StateSlot(r)].query = result.content]
                      /\ stage' = [stage EXCEPT ![r] = "Queried"]
                      /\ ret' = ret
    /\ UNCHANGED <<world, question, llm_model, llm, storeExecs, lastRows,
                   storeOutcome, storeMutated, db, query_prompt_template>>

execute_query(r) ==
    /\ Running(r)
    /\ NextNode(r) = "execute_query"
    /\ log' = [log EXCEPT ![r] = Append(@, "execute_query")]
    /\ LET state == states[StateSlot(r)] IN
       \E o \in StoreOutcomes(world, state.query) :
          /\ storeExecs' = [storeExecs EXCEPT ![r] = @ \o Invocations(state.query, o)]
          /\ lastRows' = [lastRows EXCEPT ![r] = o.rows]
          /\ storeOutcome' = [storeOutcome EXCEPT ![r] = o.kind]
          /\ storeMutated' = (storeMutated \/ o.kind = "mutated")
          /\ IF ToolInvoke(o).raised
               THEN Fail(r, ToolInvoke(o).err)
               ELSE /\ states' = [states EXCEPT ![StateSlot(r)].result = ToolInvoke(o).content]
                    /\ stage' = [stage EXCEPT ![r] = "Executed"]
                    /\ ret' = ret
    /\ UNCHANGED <<world, question, llm_model, llm, llmCalls, schemaReads, db,
                   query_prompt_template>>

\* the last node, and process_question's return of the graph's final state
generate_answer(r) ==
    /\ Running(r)
    /\ NextNode(r) = "generate_answer"
    /\ log' = [log EXCEPT ![r] = Append(@, "generate_answer")]
    /\ LET state == states[StateSlot(r)] IN
       /\ llmCalls' = [llmCalls EXCEPT ![r] =
              Append(@, Prompt("generate_answer", r,
                               <<state.question, state.query, state.result>>))]
       /\ \E response \in LLMInvoke(world, "answer", state.result) :
            IF response.raised
              THEN Fail(r, response.err)
              ELSE /\ states' = [states EXCEPT ![StateSlot(r)].answer = response.content]
                   /\ stage' = [stage EXCEPT ![r] = "Answered"]
                   /\ ret' = [ret EXCEPT ![r] = SuccessTuple(states'[StateSlot(r)])]
    /\ UNCHANGED <<world, question, llm_model, llm, schemaReads, storeExecs, lastRows,
                   storeOutcome, storeMutated, db, query_prompt_template>>

Next ==
    \/ \E r \in Reqs : process_question(r)
    \/ \E r \in Reqs : natural_language_expand(r)
    \/ \E r \in Reqs : write_query(r)
    \/ \E r \in Reqs : execute_query(r)
    \/ \E r \in Reqs : generate_answer(r)

Spec == Init /\ [][Next]_vars

SpecConc == InitConc /\ [][Next]_vars


(***************************************************************************)
(* Properties                                                              *)
(***************************************************************************)
AllowList == {"gemini-2.0-flash", "llama-3.3-70b-versatile", "gemini-2.5-flash-preview-04-17"}

Order == <<"natural_language_expand", "write_query", "execute_query", "generate_answer">>

Returned4(r) == Len(ret[r]) = 4

IsErrorText(t) == Len(t) >= 2 /\ t[1] = "Error: "

Ran(r, node) == \E i \in 1..Len(log[r]) : log[r][i] = node

\* the returned tuple carries all four artifacts, each non-empty, and no error
SuccessOutcome(r) ==
    /\ stage[r] = "Answered"
    /\ log[r] = Order
    /\ Returned4(r)
    /\ \A i \in 1..4 : Len(ret[r][i]) > 0
    /\ ret[r][1][1] # "Error: "

\* the returned tuple carries an error message and nothing else, and the run
\* ended at the stage that failed
FailureOutcome(r) ==
    /\ stage[r] \in {"Failed", "Rejected"}
    /\ Returned4(r)
    /\ IsErrorText(ret[r][1])
    /\ \A i \in 2..4 : ret[r][i] = Empty
    /\ stage[r] = "Failed" => Len(log[r]) >= 1
    /\ stage[r] = "Rejected" => log[r] = <<>>

C2_EmptyQuestionRejected ==
    \A r \in Reqs :
        (stage[r] # "Idle" /\ question[r] = Empty)
            => /\ stage[r] = "Rejected"
               /\ ret[r] = << <<"Error: ", "Please enter a question.">>, Empty, Empty, Empty >>
               /\ llmCalls[r] = <<>>
               /\ schemaReads[r] = 0
               /\ storeExecs[r] = <<>>
               /\ log[r] = <<>>

C2_Witness ==
    \E r \in Reqs : stage[r] = "Rejected" /\ question[r] = Empty
                    /\ llm_model[r] \notin AllowList

\* C3: a non-empty question with a model outside the allow-list fails fast with
\* an error result; no stage runs and no model or store call is made.
C3_UnsupportedModelFailsFast ==
    \A r \in Reqs :
        (stage[r] # "Idle" /\ question[r] # Empty /\ llm_model[r] \notin AllowList)
            => /\ stage[r] = "Rejected"
               /\ Returned4(r)
               /\ IsErrorText(ret[r][1])
               /\ \A i \in 2..4 : ret[r][i] = Empty
               /\ log[r] = <<>>
               /\ llmCalls[r] = <<>>
               /\ storeExecs[r] = <<>>

C3_Witness ==
    \E r \in Reqs : stage[r] = "Rejected" /\ question[r] # Empty
                    /\ llm_model[r] = "unsupported-model-x"

\* C4: no mutating statement is ever dispatched to the store, and the store is
\* never mutated: the execution stage sends only read-only selects.
C4_OnlySelectDispatched ==
    /\ ~storeMutated
    /\ \A r \in Reqs : \A i \in 1..Len(storeExecs[r]) :
           StatementKind(storeExecs[r][i]) # "mutating"

\* C5: for a question that does not explicitly request more rows, the executed
\* query returns at most the ceiling of 10 rows.
C5_RowCeiling ==
    \A r \in Reqs : ~RequestsMoreRows(question[r]) => lastRows[r] <= 10

Transitions ==
    {<<"Start", "Expanded">>, <<"Start", "Failed">>,
     <<"Expanded", "Queried">>, <<"Expanded", "Failed">>,
     <<"Queried", "Executed">>,
     <<"Executed", "Answered">>, <<"Executed", "Failed">>}

StageAfter(node) ==
    CASE node = "natural_language_expand" -> "Expanded"
      [] node = "write_query" -> "Queried"
      [] node = "execute_query" -> "Executed"
      [] node = "generate_answer" -> "Answered"

C6_Step(r) ==
    \* only the transitions of the state machine
    /\ (stage'[r] # stage[r] /\ stage[r] # "Idle") => <<stage[r], stage'[r]>> \in Transitions
    \* one stage per step, the next one of the fixed order, none skipped or repeated
    /\ log'[r] # log[r] =>
          /\ Len(log[r]) < 4
          /\ log'[r] = SubSeq(Order, 1, Len(log[r]) + 1)
          /\ stage'[r] \in {StageAfter(log'[r][Len(log'[r])]), "Failed"}
    /\ stage'[r] # stage[r] /\ stage[r] # "Idle" => log'[r] # log[r]
    \* each field is written by its own stage only
    /\ states'[r].expanded_question # states[r].expanded_question
          => stage[r] = "Start" /\ stage'[r] = "Expanded"
    /\ states'[r].query # states[r].query
          => stage[r] = "Expanded" /\ stage'[r] = "Queried"
    /\ states'[r].result # states[r].result
          => stage[r] = "Queried" /\ stage'[r] = "Executed"
    /\ states'[r].answer # states[r].answer
          => stage[r] = "Executed" /\ stage'[r] = "Answered"
    \* Answered and Failed are terminal
    /\ stage[r] \in {"Answered", "Failed"} =>
          /\ stage'[r] = stage[r]
          /\ log'[r] = log[r]
          /\ states'[r] = states[r]
          /\ ret'[r] = ret[r]

\* C6: each request follows Start -> Expanded -> Queried -> Executed ->
\* Answered, with Failed entered only from Start, Expanded or Executed; the four
\* stages run in the fixed order, each at most once, one at a time; the fields
\* are written in that order; Answered and Failed are terminal.
C6_StateMachine == [][\A r \in Reqs : C6_Step(r)]_vars

C6_Witness ==
    \E r \in Reqs : stage[r] = "Answered" /\ log[r] = Order

\* C7: a stage never starts with its predecessor's field empty: write_query
\* never sees an empty expanded_question, execute_query never dispatches an
\* empty query, generate_answer never sees an empty result.
C7_NoEmptyPredecessor ==
    \A r \in Reqs :
        /\ \A i \in 1..Len(llmCalls[r]) :
              /\ llmCalls[r][i].node = "write_query" => llmCalls[r][i].input[1] # Empty
              /\ llmCalls[r][i].node = "generate_answer" => llmCalls[r][i].input[3] # Empty
        /\ \A i \in 1..Len(storeExecs[r]) : storeExecs[r][i] # Empty

NoRowsOrError(r) ==
    \/ storeOutcome[r] = "error"
    \/ storeOutcome[r] = "rows" /\ lastRows[r] = 0

\* C8: when the store reports an error or returns no rows, the execution stage
\* does not fail the request: the error text is the result, the pipeline is in
\* Executed, generate_answer runs with that result, and a successful answer
\* ends the request in Answered with all four fields returned.
C8_ExecutionErrorForwarded ==
    \A r \in Reqs :
        NoRowsOrError(r) =>
            /\ stage[r] \in {"Executed", "Answered", "Failed"}
            /\ storeOutcome[r] = "error" => IsErrorText(states[r].result)
            /\ storeOutcome[r] = "rows" => states[r].result = Empty
            /\ stage[r] \in {"Answered", "Failed"} =>
                  /\ log[r] = Order
                  /\ llmCalls[r][Len(llmCalls[r])].node = "generate_answer"
                  /\ llmCalls[r][Len(llmCalls[r])].input[3] = states[r].result
            /\ stage[r] = "Answered" =>
                  /\ SuccessOutcome(r)
                  /\ ret[r][4] = <<"Query Result">> \o states[r].result

C8_Witness ==
    \E r \in Reqs : stage[r] = "Answered" /\ storeOutcome[r] = "error"

\* C9: a run executes at most one statement on the store, exactly one once
\* execute_query has run and none before, also when the store reports an error.
C9_OneExecutionPerRun ==
    \A r \in Reqs :
        /\ Len(storeExecs[r]) <= 1
        /\ Len(storeExecs[r]) = 1 <=> Ran(r, "execute_query")
        /\ Len(storeExecs[r]) = 1 => storeExecs[r][1] = states[r].query

C9_Witness ==
    \E r \in Reqs : storeOutcome[r] = "error" /\ Len(storeExecs[r]) = 1
                    /\ stage[r] = "Answered"

\* what invocation r sends and returns, computed from its own question alone
OwnPrompts(r) ==
    <<  <<question[r]>>,
        << <<"expanded">> \o question[r] >>  >>

C10_Own(r) ==
    /\ stage[r] \notin {"Idle", "Rejected"} => states[r].question = question[r]
    /\ \A i \in 1..Len(llmCalls[r]) :
          /\ i <= 2 => llmCalls[r][i].input = OwnPrompts(r)[i]
          /\ i = 3 => llmCalls[r][i].input[1] = question[r]
          /\ llmCalls[r][i].llm.model = llm_model[r]
    /\ stage[r] = "Answered" =>
          /\ ret[r] = SuccessTuple(states[r])
          /\ ret[r][2] = <<"Expanded Question", "expanded">> \o question[r]

C10_Step(r) ==
    stage'[r] = stage[r] =>
        /\ states'[r] = states[r]
        /\ ret'[r] = ret[r]
        /\ llmCalls'[r] = llmCalls[r]
        /\ log'[r] = log[r]

\* C10: with invocations interleaved in any way, each works on its own State:
\* a step of one invocation leaves every other invocation's state untouched,
\* what an invocation sends and returns is built from its own question and
\* stage outputs, and the shared db handle and prompt template never change.
C10_RequestIsolation ==
    /\ [](\A r \in Reqs : C10_Own(r))
    /\ [][/\ \A r \in Reqs : C10_Step(r)
          /\ db' = db
          /\ query_prompt_template' = query_prompt_template]_vars

C10_Witness ==
    /\ stage[1] = "Answered"
    /\ stage[2] = "Expanded"
    /\ question[1] # question[2]

====
